---- MODULE Spec2Model ----
(***************************************************************************)
(* A model of the metrics acquisition and caching subsystem of bot.py:     *)
(* ConfigManager, PlatformScraper (the YouTube fetcher and the TikTok      *)
(* primary/fallback chain), StatsCache and StatsCollector.                 *)
(*                                                                         *)
(* The asyncio event loop runs one coroutine step at a time; a step of the *)
(* model is the code between two suspension points.  The blocking scraper  *)
(* functions run in worker threads (asyncio.to_thread); a thread touches   *)
(* none of the shared objects, so its run is one step (two for the TikTok  *)
(* chain: the primary strategy, then the fallback strategy).               *)
(***************************************************************************)
EXTENDS Integers, Sequences, FiniteSets, TLC

\* ------------------------------------------------------------------ bounds
\* The wall clock (datetime.now) takes the values 0..MaxTime.
MaxTime == 3
\* cache_ttl_seconds of config.json (600 when the key is absent), scaled down.
Ttl == 1
\* How many update_profile_value calls are started in one behaviour.
MaxUpdates == 1

\* ------------------------------------------------------------ data shapes
\* Python's None for object-valued optionals.
None == <<>>
\* A profile key that is missing from config.json (profiles.get gives None).
Absent == "<absent>"

\* The coroutines that may call get_stats concurrently: the /stats handler
\* and the broadcast job.
Callers == {"stats", "broadcast"}

\* CONFIG_KEYS
CONFIG_KEYS == {"youtube_channel_url", "tiktok_username"}

\* The names _collect gives to its two wrapped fetchers.
Platforms == {"youtube", "tiktok"}

\* The values a profile key takes: missing, the empty string, or a target.
ProfileValues == {Absent, "", "a", "b"}

\* Truthiness taking every value that is present, the empty string included.
Truthy_present(value) == value # Absent

\* Python truthiness of a profile value: None and "" are falsy.
Truthy(value) == value \notin {Absent, ""}

\* ConfigManager.get_profile_value
get_profile_value(profiles, key) == profiles[key]

\* ----------------------------------------------------- outcomes of a call
\* A call either returns a value or raises: exc is the exception class, msg
\* is str(exc).  Texts are tuples: a fixed text, and the number formatted into
\* it when there is one.
Return(data, n) == [raised |-> FALSE, data |-> data, reqs |-> n]
Raise(exc, msg, n) == [raised |-> TRUE, exc |-> exc, msg |-> msg, reqs |-> n]

\* The exception classes that are subclasses of requests.RequestException.
RequestExceptions == {"ConnectionError", "HTTPError"}

\* ------------------------------------------------------------ _parse_count
\* A text is a sequence of characters; "nbsp" stands for U+00A0.  An absent
\* text (None) and the empty text are both <<>>: `not text` holds of both.
Digits == {"0", "1", "2", "3", "4", "5", "6", "7", "8", "9"}

\* str.split() with no argument splits on every whitespace character, U+00A0
\* included.
Whitespace == {" ", "nbsp"}

\* int(ch) of a decimal digit.
DigitValue(ch) ==
    CASE ch = "0" -> 0 [] ch = "1" -> 1 [] ch = "2" -> 2 [] ch = "3" -> 3
      [] ch = "4" -> 4 [] ch = "5" -> 5 [] ch = "6" -> 6 [] ch = "7" -> 7
      [] ch = "8" -> 8 [] ch = "9" -> 9

\* text.split(): the whitespace-delimited pieces of a text.
RECURSIVE split(_)
split(text) ==
    IF text = <<>> THEN <<>>
    ELSE IF Head(text) \in Whitespace THEN split(Tail(text))
    ELSE LET rest == split(Tail(text))
         IN  IF Len(text) > 1 /\ text[2] \notin Whitespace
             THEN <<(<<Head(text)>> \o Head(rest))>> \o Tail(rest)
             ELSE <<(<<Head(text)>>)>> \o rest

\* str.replace(ch, "") for each ch of chars.
replace(text, chars) == SelectSeq(text, LAMBDA ch : ch \notin chars)

\* The group `number` of the pattern, [\d.]+ matched greedily at the start of
\* the candidate; <<>> when the pattern does not match.
RECURSIVE number_group(_)
number_group(candidate) ==
    IF candidate = <<>> \/ Head(candidate) \notin Digits \cup {"."} THEN <<>>
    ELSE <<Head(candidate)>> \o number_group(Tail(candidate))

\* The group `suffix` of the pattern, [KMkMbB]? after the number: the class
\* holds K, M, k, b and B.
suffix_group(candidate, number) ==
    IF Len(candidate) > Len(number)
       /\ candidate[Len(number) + 1] \in {"K", "M", "k", "M", "b", "B"}
    THEN candidate[Len(number) + 1]
    ELSE ""

\* str.upper of a suffix.
upper(suffix) ==
    CASE suffix = "k" -> "K" [] suffix = "m" -> "M" [] suffix = "b" -> "B"
      [] OTHER -> suffix

\* int(digits) of a sequence of decimal digits.
RECURSIVE DigitsToInt(_)
DigitsToInt(digits) ==
    IF digits = <<>> THEN 0
    ELSE 10 * DigitsToInt(SubSeq(digits, 1, Len(digits) - 1))
         + DigitValue(digits[Len(digits)])

\* 10 ** n
RECURSIVE Pow10(_)
Pow10(n) == IF n = 0 THEN 1 ELSE 10 * Pow10(n - 1)

\* float(number) accepts a text of digits with at most one point and at least
\* one digit; it raises ValueError on any other text of digits and points.
IsFloat(number) ==
    /\ Len(SelectSeq(number, LAMBDA ch : ch = ".")) <= 1
    /\ SelectSeq(number, LAMBDA ch : ch \in Digits) # <<>>

\* The digits of a number after its point.
Decimals(number) ==
    IF \E i \in 1..Len(number) : number[i] = "."
    THEN Len(number) - (CHOOSE i \in 1..Len(number) : number[i] = ".")
    ELSE 0

\* {"K": 1_000, "M": 1_000_000, "B": 1_000_000_000}.get(suffix, 1)
multiplier_of(suffix) ==
    CASE suffix = "K" -> 1000 [] suffix = "M" -> 1000000
      [] suffix = "B" -> 1000000000 [] OTHER -> 1

\* PlatformScraper._parse_count.  int(number * multiplier) truncates the
\* product of a binary float; it is computed here in decimal, which gives the
\* same integer on every text of CountTexts.
_parse_count(text) ==
    IF text = <<>> THEN Return(None, 0)
    ELSE IF split(text) = <<>>
    THEN Raise("IndexError", <<"list index out of range">>, 0)
    ELSE LET candidate == replace(split(text)[1], {"nbsp", " ", ","})
             number == number_group(candidate)
             suffix == upper(suffix_group(candidate, number))
             digits == SelectSeq(candidate, LAMBDA ch : ch \in Digits)
         IN  IF number # <<>>
             THEN IF ~IsFloat(number)
                  THEN Raise("ValueError", <<"could not convert string to float">>, 0)
                  ELSE Return(<<(DigitsToInt(replace(number, {"."}))
                                   * multiplier_of(suffix))
                                \div Pow10(Decimals(number))>>, 0)
             ELSE IF digits # <<>> THEN Return(<<DigitsToInt(digits)>>, 0)
             ELSE Return(None, 0)

\* The count texts a channel page may carry.
Text12_3K == <<"1", "2", ".", "3", "K">>
Text1_234_567 == <<"1", ",", "2", "3", "4", ",", "5", "6", "7">>
Text2M == <<"2", "M">>
Text2m == <<"2", "m">>
Text2k == <<"2", "k">>
Text1b == <<"1", "b">>
Text1_2_3 == <<"1", ".", "2", ".", "3">>
TextBlank == <<" ">>
TextWords == <<"n", "/", "a">>
Text12Subs == <<"1", "2", "nbsp", "s", "u", "b", "s">>
TextTilde12 == <<"~", "1", "2">>
Text10 == <<"1", "0">>
Text5_000 == <<"5", ",", "0", "0", "0">>
Text1_2K == <<"1", ".", "2", "K">>

CountTexts ==
    { None, Text12_3K, Text1_234_567, Text2M, Text2m, Text2k, Text1b, Text1_2_3,
      TextBlank, TextWords, Text12Subs, TextTilde12 }

\* ------------------------------------------------------- YouTube fetcher
\* What the outside world answers during one run of _youtube_stats:
\*   resolve: how _resolve_channel_id ends: "direct" (the target already
\*            holds a UC... id, no request), "ytdlp" (yt-dlp resolved it, one
\*            request) or "fail" (yt-dlp raised, or gave no id: None);
\*   http:    the answer of self.http.get: raised, or a status code;
\*   page:    the channel page: "no_initial_data" (_extract_yt_initial_data
\*            raises), "no_about" (_find_renderer gives None), or "about" (the
\*            aboutChannelViewModel is found);
\*   texts:   the three count texts of the view model.
YtInput(resolve, raised, status_code, page, texts) ==
    [resolve |-> resolve, raised |-> raised, status_code |-> status_code,
     page |-> page, texts |-> texts]

\* The count texts of a view model: subscriberCountText, videoCountText and
\* viewCountText.
ViewModel(subscribers, videos, views) ==
    [subscriberCountText |-> subscribers, videoCountText |-> videos,
     viewCountText |-> views]

\* A channel page whose count texts all parse.
PlainTexts == ViewModel(Text1_2K, Text10, Text5_000)

YoutubeInputsAll ==
    { YtInput("fail", FALSE, 200, "about", PlainTexts),
      YtInput("direct", TRUE, 0, "about", PlainTexts),
      YtInput("direct", FALSE, 404, "about", PlainTexts),
      YtInput("direct", FALSE, 200, "no_initial_data", PlainTexts),
      YtInput("direct", FALSE, 200, "no_about", PlainTexts),
      YtInput("ytdlp", FALSE, 200, "about", ViewModel(Text1_2K, None, Text5_000)) }
    \cup { YtInput("direct", FALSE, 200, "about", ViewModel(text, Text10, Text5_000)) :
             text \in CountTexts }

\* One input for each status _youtube_stats can end with (ok, error).
YoutubeInputsCore ==
    { YtInput("direct", FALSE, 404, "about", PlainTexts),
      YtInput("direct", FALSE, 200, "about", PlainTexts) }

\* The outbound requests _resolve_channel_id makes.
ResolveReqs(inp) == IF inp.resolve = "direct" THEN 0 ELSE 1

\* PlatformScraper._youtube_stats.  The dict it returns is built entry by
\* entry: the first _parse_count call that raises ends the function.
_youtube_stats(url, inp) ==
    LET followers == _parse_count(inp.texts.subscriberCountText)
        videos == _parse_count(inp.texts.videoCountText)
        views == _parse_count(inp.texts.viewCountText)
    IN
    IF inp.resolve = "fail"
    THEN Return([status |-> "error",
                 message |-> <<"ID do canal do YouTube nao identificado.">>],
                ResolveReqs(inp))
    ELSE IF inp.raised
    THEN Return([status |-> "error", message |-> <<"connection failed">>],
                ResolveReqs(inp) + 1)
    ELSE IF inp.status_code # 200
    THEN Return([status |-> "error",
                 message |-> <<"YouTube respondeu com status", inp.status_code>>],
                ResolveReqs(inp) + 1)
    ELSE IF inp.page = "no_initial_data"
    THEN Return([status |-> "error", message |-> <<"ytInitialData nao encontrado.">>],
                ResolveReqs(inp) + 1)
    ELSE IF inp.page = "no_about"
    THEN Return([status |-> "error", message |-> <<"Dados do canal nao encontrados.">>],
                ResolveReqs(inp) + 1)
    ELSE IF followers.raised
    THEN Raise(followers.exc, followers.msg, ResolveReqs(inp) + 1)
    ELSE IF videos.raised
    THEN Raise(videos.exc, videos.msg, ResolveReqs(inp) + 1)
    ELSE IF views.raised
    THEN Raise(views.exc, views.msg, ResolveReqs(inp) + 1)
    ELSE Return([status |-> "ok",
                 identifier |-> <<url>>,
                 followers |-> followers.data,
                 videos |-> videos.data,
                 views |-> views.data],
                ResolveReqs(inp) + 1)

\* -------------------------------------------------- TikTok primary (API)
\* A response of tiktok.tokcount.com: http.get raised, or a status code, a
\* body that is JSON or not, and the body's fields (None when missing).
TokResp(raised, status_code, json, success, challenge, message, userId, counts) ==
    [raised |-> raised, status_code |-> status_code, json |-> json,
     success |-> success, challenge |-> challenge, message |-> message,
     userId |-> userId, counts |-> counts]

RespNetwork == TokResp(TRUE, 0, FALSE, FALSE, FALSE, None, None, None)
Resp401 == TokResp(FALSE, 401, TRUE, FALSE, FALSE, <<"denied">>, None, None)
Resp403 == TokResp(FALSE, 403, FALSE, FALSE, FALSE, None, None, None)
Resp429Body == TokResp(FALSE, 429, TRUE, TRUE, FALSE, None, <<7>>, None)
Resp500 == TokResp(FALSE, 500, TRUE, TRUE, FALSE, None, <<7>>, None)
RespBadJson == TokResp(FALSE, 200, FALSE, FALSE, FALSE, None, None, None)
RespChallenge == TokResp(FALSE, 200, TRUE, FALSE, TRUE, <<"captcha">>, None, None)
RespFail == TokResp(FALSE, 200, TRUE, FALSE, FALSE, None, None, None)
RespUser == TokResp(FALSE, 200, TRUE, TRUE, FALSE, None, <<7>>, None)
RespStats == TokResp(FALSE, 200, TRUE, TRUE, FALSE, None, None,
                     [followerCount |-> <<900>>, likeCount |-> <<40>>,
                      followingCount |-> <<3>>, videoCount |-> <<12>>])

TokcountResponsesAll ==
    { RespNetwork, Resp401, Resp403, Resp429Body, Resp500, RespBadJson, RespChallenge,
      RespFail, RespUser, RespStats }

\* The answers to the two requests of one run of _tokcount_stats.
TokcountAnswersAll == TokcountResponsesAll \X TokcountResponsesAll

\* One pair for each way _tokcount_stats can end (ok, blocked, other error).
TokcountAnswersCore ==
    { <<RespUser, RespStats>>, <<Resp403, RespStats>>, <<Resp500, RespStats>> }

\* _tokcount_get reading the body before it looks at the status code.
_tokcount_get_bodyfirst(resp) ==
    IF resp.raised
    THEN Raise("ConnectionError", <<"connection failed">>, 1)
    ELSE IF resp.json /\ resp.success
    THEN Return(resp, 1)
    ELSE IF resp.json /\ resp.challenge
    THEN Raise("TemporaryBlockError", <<"TokCount retornou erro.">>, 1)
    ELSE IF resp.json
    THEN Raise("RuntimeError", <<"TokCount retornou erro.">>, 1)
    ELSE IF resp.status_code \in {401, 403, 429}
    THEN Raise("TemporaryBlockError", <<"TokCount bloqueou o acesso.">>, 1)
    ELSE Raise("RuntimeError", <<"TokCount retornou resposta invalida.">>, 1)

\* PlatformScraper._tokcount_get: one request.
_tokcount_get(resp) ==
    IF resp.raised
    THEN Raise("ConnectionError", <<"connection failed">>, 1)
    ELSE IF resp.status_code \in {401, 403, 429}
    THEN Raise("TemporaryBlockError", <<"TokCount bloqueou o acesso.">>, 1)
    ELSE IF resp.status_code >= 400
    THEN Raise("HTTPError", <<"Server Error", resp.status_code>>, 1)
    ELSE IF ~resp.json
    THEN Raise("RuntimeError", <<"TokCount retornou resposta invalida.">>, 1)
    ELSE IF ~resp.success
    THEN IF resp.challenge
         THEN Raise("TemporaryBlockError",
                    IF resp.message # None THEN resp.message
                    ELSE <<"TokCount retornou erro.">>, 1)
         ELSE Raise("RuntimeError",
                    IF resp.message # None THEN resp.message
                    ELSE <<"TokCount retornou erro.">>, 1)
    ELSE Return(resp, 1)

\* dict.get of a count on a stats payload.
StatsGet(payload, key) == IF payload.counts = None THEN None ELSE payload.counts[key]

\* PlatformScraper._tokcount_stats: r1 answers /user/data, r2 /user/stats.
_tokcount_stats(username, r1, r2) ==
    LET user_payload == _tokcount_get(r1)
        stats_payload == _tokcount_get(r2)
    IN  IF user_payload.raised THEN user_payload
        ELSE IF user_payload.data.userId = None
        THEN Raise("RuntimeError",
                   <<"TokCount nuo retornou o identificador do usuorio.">>, 1)
        ELSE IF stats_payload.raised
        THEN Raise(stats_payload.exc, stats_payload.msg, 2)
        ELSE Return([status |-> "ok",
                     identifier |-> <<"@", username>>,
                     followers |-> StatsGet(stats_payload.data, "followerCount"),
                     likes |-> StatsGet(stats_payload.data, "likeCount"),
                     following |-> StatsGet(stats_payload.data, "followingCount"),
                     videos |-> StatsGet(stats_payload.data, "videoCount")], 2)

\* ------------------------------------------ TikTok fallback (public page)
\* The profile page: http.get raised, or a status code and what
\* _parse_tiktok_web_stats finds in the html.
TtPage(raised, status_code, html) ==
    [raised |-> raised, status_code |-> status_code, html |-> html]

TiktokPagesAll ==
    { TtPage(TRUE, 0, "stats"), TtPage(FALSE, 404, "stats"),
      TtPage(FALSE, 200, "no_script"), TtPage(FALSE, 200, "bad_json"),
      TtPage(FALSE, 200, "no_user_detail"), TtPage(FALSE, 200, "no_stats"),
      TtPage(FALSE, 200, "stats") }

TiktokPagesCore == { TtPage(FALSE, 404, "stats"), TtPage(FALSE, 200, "stats") }

\* PlatformScraper._parse_tiktok_web_stats and _tiktok_stats_page: one request.
_tiktok_stats_page(username, page) ==
    IF page.raised
    THEN Raise("ConnectionError", <<"connection failed">>, 1)
    ELSE IF page.status_code # 200
    THEN Raise("RuntimeError", <<"TikTok respondeu com status", page.status_code>>, 1)
    ELSE IF page.html = "no_script"
    THEN Raise("RuntimeError", <<"dados da pagina do TikTok nao foram encontrados.">>, 1)
    ELSE IF page.html = "bad_json"
    THEN Raise("RuntimeError", <<"Erro parseando os dados do TikTok.">>, 1)
    ELSE IF page.html = "no_user_detail"
    THEN Raise("RuntimeError", <<"webapp.user-detail ausente">>, 1)
    ELSE IF page.html = "no_stats"
    THEN Raise("RuntimeError", <<"TikTok nao retornou as estatisticas do usuario.">>, 1)
    ELSE Return([status |-> "ok",
                 identifier |-> <<"@", username>>,
                 followers |-> <<950>>, likes |-> <<41>>,
                 following |-> <<3>>, videos |-> <<12>>], 1)

\* ------------------------------------------------- TikTok chain (composed)
\* fallback_reason as the except clauses of _tiktok_stats set it from the
\* exception the primary strategy raised.
fallback_reason_of(out) ==
    IF out.exc = "TemporaryBlockError" THEN <<"blocked", out.msg>>
    ELSE IF out.exc \in RequestExceptions THEN <<"error", out.msg>>
    ELSE <<"error", out.msg>>

\* _tiktok_stats reporting the fallback's failure whatever the primary's was.
_tiktok_stats_final_unclassified(fallback_reason, out) ==
    IF ~out.raised THEN out.data
    ELSE [status |-> "error", message |-> out.msg]

\* What _tiktok_stats returns once the fallback strategy has ended with `out`.
_tiktok_stats_final(fallback_reason, out) ==
    IF ~out.raised THEN out.data
    ELSE IF fallback_reason # None /\ fallback_reason[1] = "blocked"
    THEN [status |-> "blocked", message |-> fallback_reason[2]]
    ELSE [status |-> "error", message |-> out.msg]

\* The state of one run of _tiktok_stats: where each strategy stands, how it
\* ended (None while it has not), and the local fallback_reason.
ChainIdle ==
    [primary |-> "idle", fallback |-> "idle", fallback_reason |-> None,
     primary_out |-> None, fallback_out |-> None]

\* _tiktok_stats starting both strategies at once.
ChainStartBoth == [ChainIdle EXCEPT !.primary = "running", !.fallback = "running"]

\* _tiktok_stats is entered: the primary strategy is called first.
ChainStart == [ChainIdle EXCEPT !.primary = "running"]

\* ------------------------------------------------------------- StatsCache
\* StatsCache.__init__
EmptyCache == [timestamp |-> None, payload |-> None]

\* StatsCache.get with the age test the wrong way round.
StatsCache_get_inverted(cache, t) ==
    IF cache.payload = None \/ cache.timestamp = None THEN None
    ELSE IF t - cache.timestamp[1] <= Ttl THEN None
    ELSE cache.payload

\* StatsCache.get taking an entry whose age equals the TTL for expired.
StatsCache_get_strict(cache, t) ==
    IF cache.payload = None \/ cache.timestamp = None THEN None
    ELSE IF t - cache.timestamp[1] >= Ttl THEN None
    ELSE cache.payload

\* StatsCache.get measuring the age from the snapshot's generated_at.
StatsCache_get_generated(cache, t) ==
    IF cache.payload = None \/ cache.timestamp = None THEN None
    ELSE IF t - cache.payload["generated_at"] > Ttl THEN None
    ELSE cache.payload

\* StatsCache.get without the age test.
StatsCache_get_forever(cache, t) ==
    IF cache.payload = None \/ cache.timestamp = None THEN None
    ELSE cache.payload

\* StatsCache.get at clock value t; the timestamp is <<t0>> once set.
StatsCache_get(cache, t) ==
    IF cache.payload = None \/ cache.timestamp = None THEN None
    ELSE IF t - cache.timestamp[1] > Ttl THEN None
    ELSE cache.payload

\* StatsCache.set storing the timestamp with a part of the snapshot only.
StatsCache_set_torn(data, t) ==
    [timestamp |-> <<t>>,
     payload |-> [key \in DOMAIN data \ {"tiktok"} |-> data[key]]]

\* StatsCache.set at clock value t.
StatsCache_set(data, t) == [timestamp |-> <<t>>, payload |-> data]

\* _wrap answering an exception with a payload that has no message.
_wrap_bare(out) ==
    IF ~out.raised THEN out.data
    ELSE IF out.exc = "TemporaryBlockError" THEN [status |-> "blocked"]
    ELSE [status |-> "error"]

\* _wrap with the except clause for TemporaryBlockError left out.
_wrap_allerror(out) ==
    IF ~out.raised THEN out.data
    ELSE [status |-> "error", message |-> out.msg]

\* --------------------------------------------------------- StatsCollector
\* StatsCollector._wrap applied to the way the awaited fetcher ended.
_wrap(out) ==
    IF ~out.raised THEN out.data
    ELSE IF out.exc = "TemporaryBlockError"
    THEN [status |-> "blocked", message |-> out.msg]
    ELSE [status |-> "error", message |-> out.msg]

\* isinstance(payload, dict) for the values of a results dict: every value is
\* a platform payload except the datetime under "generated_at".
IsDict(results, key) == key # "generated_at"

\* _should_cache taking not_configured for a success.
_should_cache_lenient(results) ==
    \A key \in DOMAIN results :
        IsDict(results, key) => results[key].status \in {"ok", "not_configured"}

\* _should_cache without the status test.
_should_cache_always(results) == TRUE

\* _should_cache returning True at the first payload whose status is ok.
_should_cache_any(results) ==
    \E key \in DOMAIN results :
        IsDict(results, key) /\ results[key].status = "ok"

\* _should_cache looking at the first payload only.
_should_cache_youtube(results) == results["youtube"].status = "ok"

\* StatsCollector._should_cache
_should_cache(results) ==
    \A key \in DOMAIN results :
        IsDict(results, key) => results[key].status = "ok"

\* ------------------------------------------------------------------ state
VARIABLES
    now,        \* the wall clock, datetime.now(timezone.utc)
    updates,    \* update_profile_value calls started so far
    profiles,   \* ConfigManager.data["profiles"]: key -> value
    disk,       \* the profiles as config.json holds them
    cfgLock,    \* ConfigManager._lock is held
    cache,      \* the StatsCache of the collector: [timestamp, payload]
    pc,         \* caller -> "idle" | "collecting" (suspended in await _collect)
    task,       \* caller -> platform -> state of the _wrap task of its cycle
    arg,        \* caller -> platform -> the target its worker thread was given
    chain,      \* caller -> the run of _tiktok_stats in its worker thread
    results,    \* caller -> platform -> the payload its _wrap task returned
    fetched,    \* caller -> platform -> how the fetcher its task awaited ended
    answer,     \* caller -> platform -> what the outside world answered its
                \*     thread: the YouTube input, the two TokCount responses
    reqs,       \* caller -> outbound requests made so far by its cycle
    called,     \* the get_stats call made in the step just taken, else None
    ret,        \* what get_stats returned in the step just taken, else None
    prevHit,    \* what the latest call served from the cache returned
    writtenSinceHit,  \* the cache was written after that call
    pendingFailed,    \* cycles ended with a not-ok entry; no call made since
    pendingOverlap,   \* ... and for each, another cycle wrote the cache since
                      \*     it began
    sawWrite,   \* caller -> another cycle wrote the cache since its cycle began
    authorized_user_id,  \* config.json's authorized_user_id, None when unset
    dialogue,   \* sender -> state of its /config conversation
    update,     \* the Telegram update being dispatched, None when there is none
    handled     \* the latest update a handler dealt with, and how it returned

vars ==
    <<now, updates, profiles, disk, cfgLock, cache, pc, task, arg, chain,
      results, fetched, answer, reqs, called, ret, prevHit, writtenSinceHit, pendingFailed,
      pendingOverlap, sawWrite, authorized_user_id, dialogue, update, handled>>

configVars == <<updates, profiles, disk, cfgLock>>
cycleVars == <<pc, task, arg, chain, results, fetched, answer, reqs>>
historyVars == <<prevHit, writtenSinceHit, pendingFailed, pendingOverlap, sawWrite>>
handlerVars == <<authorized_user_id, dialogue, update, handled>>

\* The Telegram users who write to the bot: user 1 and user 2.
Senders == {<<1>>, <<2>>}

\* The profiles config.json may hold when the bot starts.
InitialValues == {Absent, "a"}

\* The state after construction, authorized_user_id being one of `ids`: the
\* configuration as _load read it, no conversation open, no update waiting.
InitWith(ids) ==
    /\ authorized_user_id \in ids
    /\ dialogue = [s \in Senders |-> "END"]
    /\ update = None
    /\ handled = None
    /\ now = 0
    /\ updates = 0
    /\ profiles \in [CONFIG_KEYS -> InitialValues]
    /\ disk = profiles
    /\ cfgLock = FALSE
    /\ cache = EmptyCache
    /\ pc = [c \in Callers |-> "idle"]
    /\ task = [c \in Callers |-> [p \in Platforms |-> "none"]]
    /\ arg = [c \in Callers |-> [p \in Platforms |-> Absent]]
    /\ chain = [c \in Callers |-> ChainIdle]
    /\ results = [c \in Callers |-> [p \in Platforms |-> None]]
    /\ fetched = [c \in Callers |-> [p \in Platforms |-> None]]
    /\ answer = [c \in Callers |-> [p \in Platforms |-> None]]
    /\ reqs = [c \in Callers |-> 0]
    /\ called = None
    /\ ret = None
    /\ prevHit = None
    /\ writtenSinceHit = FALSE
    /\ pendingFailed = FALSE
    /\ pendingOverlap = FALSE
    /\ sawWrite = [c \in Callers |-> FALSE]

\* The bot of the user 1.
Init == InitWith({<<1>>})

\* The step just taken called or ended no get_stats.
NoEvent == called' = None /\ ret' = None

\* ----------------------------------------------------------------- clock
Tick ==
    /\ now < MaxTime
    /\ now' = now + 1
    /\ NoEvent
    /\ UNCHANGED <<handlerVars, configVars, cache, cycleVars, historyVars>>

\* ------------------------------------------------------------- get_stats
\* What a get_stats call is recorded as: who called, and how the call stands
\* to earlier ones: it is the first call since a cycle ended with a not-ok
\* entry (afterFailed), another cycle wrote the cache since that cycle began
\* (overlapped), it repeats a cache-served call (repeat, see RepeatsHit).
Called(c, afterFailed, overlapped, repeat) ==
    [caller |-> c, afterFailed |-> afterFailed, overlapped |-> overlapped,
     repeat |-> repeat]

\* What a get_stats return is recorded as: who called, whether the cache
\* served it, and the dict returned.
Returned(c, hit, snapshot) == [caller |-> c, hit |-> hit, snapshot |-> snapshot]

\* A call is made in the TTL window of the entry the latest cache-served call
\* returned, and nothing wrote the cache in between.
RepeatsHit ==
    /\ prevHit # None
    /\ now - prevHit.stored <= Ttl
    /\ ~writtenSinceHit

\* get_stats up to its first suspension: cache.get, and either the return of
\* the cached dict or the start of _collect, where asyncio.gather makes one
\* task of each _wrap coroutine and suspends the caller.
get_stats(c) ==
    /\ pc[c] = "idle"
    /\ called' = Called(c, pendingFailed, pendingOverlap, RepeatsHit)
    /\ LET cached == StatsCache_get(cache, now)
       IN  IF cached # None
           THEN /\ ret' = Returned(c, TRUE, cached)
                /\ prevHit' = [snapshot |-> cached, stored |-> cache.timestamp[1]]
                /\ writtenSinceHit' = FALSE
                /\ UNCHANGED <<cycleVars, sawWrite>>
           ELSE /\ pc' = [pc EXCEPT ![c] = "collecting"]
                /\ task' = [task EXCEPT ![c] = [p \in Platforms |-> "scheduled"]]
                /\ sawWrite' = [sawWrite EXCEPT ![c] = FALSE]
                /\ ret' = None
                /\ UNCHANGED <<arg, chain, results, fetched, answer, reqs, prevHit,
                               writtenSinceHit>>
    /\ pendingFailed' = FALSE
    /\ pendingOverlap' = FALSE
    /\ UNCHANGED <<now, configVars, cache>>

\* ------------------------------------------------------ the _wrap tasks
\* The youtube task runs up to its suspension: fetch_youtube_livecounts reads
\* the target and returns not_configured, or hands _youtube_stats to a thread.
fetch_youtube_livecounts(c) ==
    /\ task[c]["youtube"] = "scheduled"
    /\ LET url == get_profile_value(profiles, "youtube_channel_url")
       IN  IF ~Truthy(url)
           THEN LET out == Return([status |-> "not_configured"], 0)
                IN  /\ fetched' = [fetched EXCEPT ![c]["youtube"] = out]
                    /\ results' = [results EXCEPT ![c]["youtube"] = _wrap(out)]
                    /\ task' = [task EXCEPT ![c]["youtube"] = "done"]
                    /\ arg' = arg
           ELSE /\ task' = [task EXCEPT ![c]["youtube"] = "thread"]
                /\ arg' = [arg EXCEPT ![c]["youtube"] = url]
                /\ UNCHANGED <<results, fetched>>
    /\ NoEvent
    /\ UNCHANGED <<handlerVars, now, configVars, cache, pc, chain, answer, reqs, historyVars>>

\* The worker thread runs _youtube_stats and the task ends with what _wrap
\* makes of it.
youtube_thread(c, inputs) ==
    /\ task[c]["youtube"] = "thread"
    /\ \E inp \in inputs :
         LET out == _youtube_stats(arg[c]["youtube"], inp)
         IN  /\ answer' = [answer EXCEPT ![c]["youtube"] = inp]
             /\ fetched' = [fetched EXCEPT ![c]["youtube"] = out]
             /\ results' = [results EXCEPT ![c]["youtube"] = _wrap(out)]
             /\ reqs' = [reqs EXCEPT ![c] = @ + out.reqs]
    /\ task' = [task EXCEPT ![c]["youtube"] = "done"]
    /\ NoEvent
    /\ UNCHANGED <<handlerVars, now, configVars, cache, pc, arg, chain, historyVars>>

\* The tiktok task runs up to its suspension: fetch_tiktok reads the target and
\* returns not_configured, or hands _tiktok_stats to a thread.
fetch_tiktok(c) ==
    /\ task[c]["tiktok"] = "scheduled"
    /\ LET username == get_profile_value(profiles, "tiktok_username")
       IN  IF ~Truthy(username)
           THEN LET out == Return([status |-> "not_configured"], 0)
                IN  /\ fetched' = [fetched EXCEPT ![c]["tiktok"] = out]
                    /\ results' = [results EXCEPT ![c]["tiktok"] = _wrap(out)]
                    /\ task' = [task EXCEPT ![c]["tiktok"] = "done"]
                    /\ UNCHANGED <<arg, chain>>
           ELSE /\ task' = [task EXCEPT ![c]["tiktok"] = "thread"]
                /\ arg' = [arg EXCEPT ![c]["tiktok"] = username]
                /\ chain' = [chain EXCEPT ![c] = ChainStart]
                /\ UNCHANGED <<results, fetched>>
    /\ NoEvent
    /\ UNCHANGED <<handlerVars, now, configVars, cache, pc, answer, reqs, historyVars>>

\* The worker thread runs the primary strategy, _tokcount_stats.  When it
\* returns, _tiktok_stats returns its result; when it raises, an except clause
\* sets fallback_reason and the thread goes on to the fallback strategy.
tokcount_thread(c, answers) ==
    /\ task[c]["tiktok"] = "thread"
    /\ chain[c].primary = "running"
    /\ \E rs \in answers :
         LET out == _tokcount_stats(arg[c]["tiktok"], rs[1], rs[2])
         IN  /\ answer' = [answer EXCEPT ![c]["tiktok"] = rs]
             /\ reqs' = [reqs EXCEPT ![c] = @ + out.reqs]
             /\ IF ~out.raised
                THEN /\ chain' = [chain EXCEPT ![c].primary = "ok",
                                               ![c].primary_out = out]
                     /\ fetched' = [fetched EXCEPT ![c]["tiktok"] = out]
                     /\ results' = [results EXCEPT ![c]["tiktok"] = _wrap(out)]
                     /\ task' = [task EXCEPT ![c]["tiktok"] = "done"]
                ELSE /\ chain' = [chain EXCEPT
                                    ![c].primary = "failed",
                                    ![c].primary_out = out,
                                    ![c].fallback_reason = fallback_reason_of(out),
                                    ![c].fallback = "running"]
                     /\ UNCHANGED <<results, fetched, task>>
    /\ NoEvent
    /\ UNCHANGED <<handlerVars, now, configVars, cache, pc, arg, historyVars>>

\* The worker thread runs the fallback strategy, _tiktok_stats_page, and
\* _tiktok_stats returns; the task ends with what _wrap makes of it.
page_thread(c, pages) ==
    /\ task[c]["tiktok"] = "thread"
    /\ chain[c].fallback = "running"
    /\ \E page \in pages :
         LET out == _tiktok_stats_page(arg[c]["tiktok"], page)
             final == Return(_tiktok_stats_final(chain[c].fallback_reason, out),
                             chain[c].primary_out.reqs + out.reqs)
         IN  /\ reqs' = [reqs EXCEPT ![c] = @ + out.reqs]
             /\ chain' = [chain EXCEPT ![c].fallback = "done",
                                       ![c].fallback_out = out]
             /\ fetched' = [fetched EXCEPT ![c]["tiktok"] = final]
             /\ results' = [results EXCEPT ![c]["tiktok"] = _wrap(final)]
    /\ task' = [task EXCEPT ![c]["tiktok"] = "done"]
    /\ NoEvent
    /\ UNCHANGED <<handlerVars, now, configVars, cache, pc, arg, answer, historyVars>>

\* The caller resumed as soon as one task has ended (asyncio.wait with
\* FIRST_COMPLETED in place of gather).
GatherFirst(c) == \E p \in Platforms : task[c][p] = "done"

\* The caller resumed when every task has ended or as soon as one has ended
\* in an error (gather letting the first failure through).
GatherFailFast(c) ==
    \/ \A p \in Platforms : task[c][p] = "done"
    \/ \E p \in Platforms : task[c][p] = "done" /\ results[c][p].status = "error"

\* asyncio.gather resumes the caller once every task has ended.
GatherDone(c) == \A p \in Platforms : task[c][p] = "done"

\* _collect when a failure of one fetch takes the place of the whole cycle's
\* results (gather over fetchers that are not wrapped).
_collect_contaminated(c) ==
    LET ended == {q \in Platforms : results[c][q] # None}
        failed == {q \in ended : results[c][q].status = "error"}
    IN  [p \in ended |->
           IF failed # {} THEN results[c][CHOOSE q \in failed : TRUE]
           ELSE results[c][p]]

\* _collect returning a dict that already carries a generated_at, stamped
\* when the process started rather than when the cycle ends.
_collect_stamped(c) ==
    [p \in {q \in Platforms : results[c][q] # None} |-> results[c][p]]
        @@ ("generated_at" :> 0)

\* StatsCollector._collect: the dict built from the (name, payload) pairs the
\* tasks returned.
_collect(c) ==
    [p \in {q \in Platforms : results[c][q] # None} |-> results[c][p]]

\* Every platform payload of a results dict has status ok.
AllOk(snapshot) ==
    \A key \in DOMAIN snapshot \ {"generated_at"} : snapshot[key].status = "ok"

\* get_stats from the return of _collect to its own return.  generated_at and
\* the cache timestamp are two readings of the clock, the second not earlier.
get_stats_resume(c) ==
    /\ pc[c] = "collecting"
    /\ GatherDone(c)
    /\ LET snapshot == _collect(c) @@ ("generated_at" :> now)
           stored == _should_cache(snapshot)
           failed == ~AllOk(snapshot)
       IN  /\ IF stored
              THEN \E t \in {now, now + 1} :
                      /\ t <= MaxTime
                      /\ now' = t
                      /\ cache' = StatsCache_set(snapshot, t)
              ELSE UNCHANGED <<now, cache>>
           /\ called' = None
           /\ ret' = Returned(c, FALSE, snapshot)
           /\ writtenSinceHit' = (writtenSinceHit \/ (stored /\ prevHit # None))
           /\ pendingFailed' = (pendingFailed \/ failed)
           /\ pendingOverlap' =
                IF failed
                THEN (IF pendingFailed THEN pendingOverlap \/ stored ELSE TRUE)
                     /\ sawWrite[c]
                ELSE (pendingFailed /\ (pendingOverlap \/ stored))
           /\ sawWrite' = [d \in Callers |->
                             IF d = c THEN FALSE
                             ELSE sawWrite[d] \/ (stored /\ pc[d] = "collecting")]
    /\ pc' = [pc EXCEPT ![c] = "idle"]
    /\ task' = [task EXCEPT ![c] = [p \in Platforms |-> "none"]]
    /\ arg' = [arg EXCEPT ![c] = [p \in Platforms |-> Absent]]
    /\ chain' = [chain EXCEPT ![c] = ChainIdle]
    /\ results' = [results EXCEPT ![c] = [p \in Platforms |-> None]]
    /\ fetched' = [fetched EXCEPT ![c] = [p \in Platforms |-> None]]
    /\ answer' = [answer EXCEPT ![c] = [p \in Platforms |-> None]]
    /\ reqs' = [reqs EXCEPT ![c] = 0]
    /\ UNCHANGED <<handlerVars, configVars, prevHit>>

\* update_profile_value dropping the cached snapshot with the old target.
update_profile_value_evict(key, value) ==
    /\ updates < MaxUpdates
    /\ key \in CONFIG_KEYS
    /\ ~cfgLock
    /\ cfgLock' = TRUE
    /\ profiles' = [profiles EXCEPT ![key] = value]
    /\ updates' = updates + 1
    /\ cache' = EmptyCache
    /\ NoEvent
    /\ UNCHANGED <<now, disk, cycleVars, historyVars>>

\* ---------------------------------------------------------- ConfigManager
\* ConfigManager.update_profile_value up to its suspension: the lock is taken,
\* the value is set in memory and _write is handed to a thread.
update_profile_value(key, value) ==
    /\ updates < MaxUpdates
    /\ key \in CONFIG_KEYS
    /\ ~cfgLock
    /\ cfgLock' = TRUE
    /\ profiles' = [profiles EXCEPT ![key] = value]
    /\ updates' = updates + 1
    /\ NoEvent
    /\ UNCHANGED <<now, disk, cache, cycleVars, historyVars>>

\* ConfigManager._write ends in its thread and the lock is released.
_write ==
    /\ cfgLock
    /\ disk' = profiles
    /\ cfgLock' = FALSE
    /\ NoEvent
    /\ UNCHANGED <<handlerVars, now, updates, profiles, cache, cycleVars, historyVars>>

\* ------------------------------------------- _wrap over any coro_factory
\* The ways the coroutine _wrap awaits may end, whatever fetcher it is: it
\* returns a payload, or raises TemporaryBlockError or another exception.
FetcherOutcomes ==
    { Return([status |-> "ok", identifier |-> <<"a">>, followers |-> <<1200>>], 0),
      Return([status |-> "not_configured"], 0),
      Return([status |-> "error", message |-> <<"connection failed">>], 0),
      Raise("TemporaryBlockError", <<"TokCount bloqueou o acesso.">>, 0),
      Raise("TemporaryBlockError", <<"captcha">>, 0),
      Raise("RuntimeError", <<"TokCount retornou erro.">>, 0),
      Raise("ValueError", <<"could not convert string to float">>, 0),
      Raise("ConnectionError", <<"connection failed">>, 0),
      Raise("KeyError", <<"userId">>, 0) }

\* A _wrap task runs to its end: the awaited coroutine ends in one of the
\* given ways and the task returns (name, data).
wrap_task(c, p, outcomes) ==
    /\ task[c][p] = "scheduled"
    /\ \E out \in outcomes :
         /\ fetched' = [fetched EXCEPT ![c][p] = out]
         /\ results' = [results EXCEPT ![c][p] = _wrap(out)]
    /\ task' = [task EXCEPT ![c][p] = "done"]
    /\ NoEvent
    /\ UNCHANGED <<handlerVars, now, configVars, cache, pc, arg, chain, answer, reqs, historyVars>>

\* ------------------------------------------------------- the bot's handlers
\* The texts of the messages users send in the /config dialogue, as the words
\* save_config_value tells apart; None is an update without message.text (an
\* edited message).
MessageTexts ==
    { None, <<"Cancelar">>, <<"sair">>, <<"oi">>,
      <<"youtube_channel_url", "=", "b">>, <<"tiktok_username", "=", "b">>,
      <<"authorized_user_id", "=", "2">> }

\* The updates Telegram delivers: a command or a text message of a sender.
Updates ==
    [command : {"start", "stats", "config", "cancel"}, sender : Senders, text : {None}]
        \cup [command : {"text"}, sender : Senders, text : MessageTexts]

\* str.lower on the words of MessageTexts.
lower(word) == IF word = "Cancelar" THEN "cancelar" ELSE word

\* "=" in text
HasEquals(text) == \E i \in 1..Len(text) : text[i] = "="

\* [part.strip() for part in text.split("=", 1)]: what stands before the
\* first "=" and what stands after it.
split_once(text) ==
    LET i == CHOOSE j \in 1..Len(text) :
                 text[j] = "=" /\ \A k \in 1..(j - 1) : text[k] # "="
    IN  << IF i = 2 THEN text[1] ELSE "", IF Len(text) = i + 1 THEN text[i + 1] ELSE "" >>

\* What a handler did with an update.
Handled(result) == [command |-> update.command, sender |-> update.sender, result |-> result]

\* ensure_authorized with its check left out: every sender passes.
ensure_authorized_open(user_id, authorized_id) == TRUE

\* ensure_authorized: everyone passes while authorized_user_id is unset, else
\* only the user whose id it is.
ensure_authorized(user_id, authorized_id) ==
    IF authorized_id = None THEN TRUE ELSE user_id = authorized_id

\* An update arrives. Updates are dispatched one after the other: the next one
\* is taken when the handler of the previous one has returned.
receive(u) ==
    /\ update = None
    /\ pc["stats"] = "idle"
    /\ ~cfgLock
    \* the bound on the number of updates of the configuration
    /\ updates = MaxUpdates => ~(u.command = "text" /\ HasEquals(u.text))
    /\ update' = u
    /\ NoEvent
    /\ UNCHANGED <<authorized_user_id, dialogue, handled, now, configVars, cache, cycleVars,
                   historyVars>>

\* TelegramBot.start: a reply, whoever the sender is.
start ==
    /\ update # None
    /\ update.command = "start"
    /\ update' = None
    /\ handled' = Handled("replied")
    /\ NoEvent
    /\ UNCHANGED <<authorized_user_id, dialogue, now, configVars, cache, cycleVars, historyVars>>

\* TelegramBot.stats up to its first suspension inside get_stats: a sender
\* who is not authorized is denied, any other has get_stats called.
stats ==
    /\ update # None
    /\ update.command = "stats"
    /\ IF ~ensure_authorized(update.sender, authorized_user_id)
       THEN /\ handled' = Handled("denied")
            /\ NoEvent
            /\ UNCHANGED <<now, configVars, cache, cycleVars, historyVars>>
       ELSE /\ handled' = Handled("get_stats")
            /\ get_stats("stats")
    /\ update' = None
    /\ UNCHANGED <<authorized_user_id, dialogue>>

\* TelegramBot.config_command, the entry point of the dialogue of a sender
\* who has none open.
config_command ==
    /\ update # None
    /\ update.command = "config"
    /\ dialogue[update.sender] = "END"
    /\ LET state == IF ~ensure_authorized(update.sender, authorized_user_id)
                    THEN "END"
                    ELSE "CHOOSING"
       IN  /\ dialogue' = [dialogue EXCEPT ![update.sender] = state]
           /\ handled' = Handled(state)
    /\ update' = None
    /\ NoEvent
    /\ UNCHANGED <<authorized_user_id, now, configVars, cache, cycleVars, historyVars>>

\* TelegramBot.save_config_value, the handler of a text in an open dialogue,
\* up to its suspension inside update_profile_value.
save_config_value ==
    /\ update # None
    /\ update.command = "text"
    /\ dialogue[update.sender] = "CHOOSING"
    /\ LET text == update.text
           pair == split_once(text)
           state ==
               IF ~ensure_authorized(update.sender, authorized_user_id) THEN "END"
               ELSE IF text = None THEN "CHOOSING"
               ELSE IF Len(text) = 1 /\ lower(text[1]) \in {"cancelar", "sair"} THEN "END"
               ELSE "CHOOSING"
           saves ==
               /\ ensure_authorized(update.sender, authorized_user_id)
               /\ text # None
               /\ ~(Len(text) = 1 /\ lower(text[1]) \in {"cancelar", "sair"})
               /\ HasEquals(text)
               /\ pair[1] \in CONFIG_KEYS
       IN  /\ dialogue' = [dialogue EXCEPT ![update.sender] = state]
           /\ IF saves
              THEN /\ update_profile_value(pair[1], pair[2])
                   /\ handled' = Handled("saved")
              ELSE /\ handled' = Handled(state)
                   /\ NoEvent
                   /\ UNCHANGED <<now, configVars, cache, cycleVars, historyVars>>
    /\ update' = None
    /\ UNCHANGED authorized_user_id

\* TelegramBot.cancel_config, the fallback of an open dialogue.
cancel_config ==
    /\ update # None
    /\ update.command = "cancel"
    /\ dialogue[update.sender] = "CHOOSING"
    /\ dialogue' = [dialogue EXCEPT ![update.sender] = "END"]
    /\ update' = None
    /\ handled' = Handled("END")
    /\ NoEvent
    /\ UNCHANGED <<authorized_user_id, now, configVars, cache, cycleVars, historyVars>>

\* An update no handler takes: /config or a text outside the states the
\* ConversationHandler gives them, /cancel without a dialogue.
unhandled ==
    /\ update # None
    /\ \/ update.command = "config" /\ dialogue[update.sender] = "CHOOSING"
       \/ update.command \in {"text", "cancel"} /\ dialogue[update.sender] = "END"
    /\ update' = None
    /\ NoEvent
    /\ UNCHANGED <<authorized_user_id, dialogue, handled, now, configVars, cache, cycleVars,
                   historyVars>>

\* ---------------------------------------------------------- specifications
\* The steps of a collection cycle of the caller c once get_stats began it,
\* the scrapers answering from the given input sets.
Cycle(c, inputs, answers, pages) ==
        \/ fetch_youtube_livecounts(c)
        \/ youtube_thread(c, inputs)
        \/ fetch_tiktok(c)
        \/ tokcount_thread(c, answers)
        \/ page_thread(c, pages)
        \/ get_stats_resume(c)

\* The same with the calls of get_stats, made by callers that are no handler
\* of an update.
Collect(callers, inputs, answers, pages) ==
    \E c \in callers :
        \/ get_stats(c) /\ UNCHANGED handlerVars
        \/ Cycle(c, inputs, answers, pages)

\* The collector under concurrent callers and a running clock; the scrapers
\* answer with one input of each outcome class.
Next ==
    \/ Tick
    \/ Collect(Callers, YoutubeInputsCore, TokcountAnswersCore, TiktokPagesCore)

Spec == Init /\ [][Next]_vars

\* The collection cycles of one caller at a fixed clock, the scrapers
\* answering with every input: the fetchers as functions of what the outside
\* world answers.
FetchNext ==
    Collect({"stats"}, YoutubeInputsAll, TokcountAnswersAll, TiktokPagesAll)

SpecFetch == Init /\ [][FetchNext]_vars

\* One caller, a running clock and configuration updates.
ConfigNext ==
    \/ Tick
    \/ Collect({"stats"}, YoutubeInputsCore, TokcountAnswersCore, TiktokPagesCore)
    \/ \E key \in CONFIG_KEYS, value \in ProfileValues \ {Absent} :
         update_profile_value(key, value) /\ UNCHANGED handlerVars
    \/ _write

SpecConfig == Init /\ [][ConfigNext]_vars

\* The collection cycles of one caller over fetchers that may end in any way:
\* _wrap and _collect as functions of how the awaited coroutines end.
WrapNext ==
    \E c \in {"stats"} :
        \/ get_stats(c) /\ UNCHANGED handlerVars
        \/ \E p \in Platforms : wrap_task(c, p, FetcherOutcomes)
        \/ get_stats_resume(c)

SpecWrap == Init /\ [][WrapNext]_vars

\* Inputs on which every fetch ends ok: the channel page parses, the primary
\* strategy returns or is blocked, and the fallback page has its stats.
YoutubeInputsOk == { YtInput("direct", FALSE, 200, "about", PlainTexts) }
TokcountAnswersOk == { <<RespUser, RespStats>>, <<Resp403, RespStats>> }
TiktokPagesOk == { TtPage(FALSE, 200, "stats") }

\* Concurrent callers, a running clock and updates that give a platform the
\* new target "b", the scrapers answering ok.
SharedNext ==
    \/ Tick
    \/ Collect(Callers, YoutubeInputsOk, TokcountAnswersOk, TiktokPagesOk)
    \/ \E key \in CONFIG_KEYS : update_profile_value(key, "b") /\ UNCHANGED handlerVars
    \/ _write

SpecShared == Init /\ [][SharedNext]_vars

\* The updates of two users dispatched to the handlers of a bot whose
\* authorized_user_id is unset or the id of user 1, the scrapers answering ok.
HandlerInit == InitWith({None, <<1>>})

HandlerNext ==
    \/ \E u \in Updates : receive(u)
    \/ start
    \/ stats
    \/ config_command
    \/ save_config_value
    \/ cancel_config
    \/ unhandled
    \/ Cycle("stats", YoutubeInputsOk, TokcountAnswersOk, TiktokPagesOk)
    \/ _write

SpecHandlers == HandlerInit /\ [][HandlerNext]_vars

\* ----------------------------------------------------------- the claims
\* The steps of get_stats, read off two successive states.
CallStep(c) == called' # None /\ called'.caller = c
HitStep(c) == CallStep(c) /\ ret' # None /\ ret'.hit /\ ret'.caller = c
MissStep(c) == CallStep(c) /\ ret' = None /\ pc'[c] = "collecting"
ResumeStep(c) == pc[c] = "collecting" /\ pc'[c] = "idle"

\* The cache holds an entry whose age is within the TTL.
Fresh ==
    /\ cache.payload # None
    /\ cache.timestamp # None
    /\ now - cache.timestamp[1] <= Ttl

\* The statuses of the platform entries of a snapshot.
Statuses(snapshot) == {snapshot[p].status : p \in DOMAIN snapshot \ {"generated_at"}}

\* C1: when a collection cycle ends, the snapshot it assembled is stored in
\* the cache, with the time of the write, if every platform result has status
\* ok; if any result is blocked, error or not_configured the cache slot
\* (payload and timestamp) is what it was before.
C1_CacheIffAllOk ==
    [][\A c \in Callers :
         ResumeStep(c) =>
            /\ ret' # None
            /\ IF Statuses(ret'.snapshot) = {"ok"}
               THEN cache' = [timestamp |-> <<now'>>, payload |-> ret'.snapshot]
               ELSE cache' = cache]_vars

\* A cycle has just ended with a not-ok entry while the cache held an entry.
C1_Witness ==
    /\ ret # None
    /\ ~ret.hit
    /\ Statuses(ret.snapshot) \cap {"blocked", "error", "not_configured"} # {}
    /\ cache.payload # None
    /\ cache.payload # ret.snapshot

\* C2: a get_stats call made while the cache holds a still-valid snapshot
\* returns that snapshot in the same step: no task is created, no thread is
\* started and no request is made.
C2_HitReturnsAtOnce ==
    [][\A c \in Callers :
         (CallStep(c) /\ Fresh) =>
            /\ ret' # None
            /\ ret'.caller = c
            /\ ret'.snapshot = cache.payload
            /\ UNCHANGED <<pc, task, arg, chain, results, reqs>>]_vars

\* A call has just been served from the cache while the other caller's cycle
\* is in progress.
C2_Witness ==
    /\ ret # None
    /\ ret.hit
    /\ \E d \in Callers : d # ret.caller /\ pc[d] = "collecting"

\* C3 as stated: a call made in the TTL window of the entry that an earlier
\* call was served returns the same dict as that call (the same generated_at,
\* the same metric values), from the cache and without a request.
C3_AsStated ==
    [][\A c \in Callers :
         (CallStep(c) /\ prevHit # None /\ now - prevHit.stored <= Ttl) =>
            /\ HitStep(c)
            /\ ret'.snapshot = prevHit.snapshot
            /\ reqs' = reqs]_vars

\* C3: a call made in the TTL window of the entry that an earlier call was
\* served, with no cache write by a collection cycle between the two calls,
\* returns the same dict as that call, from the cache and without a request.
C3_CacheIdempotence ==
    [][\A c \in Callers :
         (CallStep(c) /\ prevHit # None /\ now - prevHit.stored <= Ttl
                      /\ ~writtenSinceHit) =>
            /\ HitStep(c)
            /\ ret'.snapshot = prevHit.snapshot
            /\ ret'.snapshot["generated_at"] = prevHit.snapshot["generated_at"]
            /\ reqs' = reqs
            /\ task' = task]_vars

\* A call has just repeated a cache-served call at a later clock value.
C3_Witness ==
    /\ called # None
    /\ called.repeat
    /\ ret # None
    /\ ret.hit
    /\ now > prevHit.stored

\* C4 as stated: a call made once Ttl has elapsed since the entry was stored
\* (its age is Ttl or more) starts a collection cycle.
C4_AsStated ==
    [][\A c \in Callers :
         (CallStep(c) /\ cache.payload # None
                      /\ now - cache.timestamp[1] >= Ttl) =>
            MissStep(c)]_vars

\* C4: a call made when more than Ttl has elapsed since the entry was stored
\* starts a collection cycle with one task for each platform fetcher, and the
\* snapshot a cycle returns carries the clock value at its end as generated_at,
\* later than the generated_at of an expired entry.
C4_TtlExpiry ==
    [][\A c \in Callers :
         /\ (CallStep(c) /\ cache.payload # None
                         /\ now - cache.timestamp[1] > Ttl) =>
               /\ MissStep(c)
               /\ \A p \in Platforms : task'[c][p] = "scheduled"
         /\ ResumeStep(c) =>
               /\ ret' # None
               /\ ~ret'.hit
               /\ ret'.snapshot["generated_at"] = now
               /\ (cache.payload # None /\ now - cache.timestamp[1] > Ttl) =>
                     ret'.snapshot["generated_at"] > cache.payload["generated_at"]]_vars

\* A cycle that an expired entry let start is about to run its fetchers: the
\* entry is still in the cache and no cycle wrote the cache since the call.
C4_Witness ==
    \E c \in Callers :
        /\ pc[c] = "collecting"
        /\ \A p \in Platforms : task[c][p] = "scheduled"
        /\ ~sawWrite[c]
        /\ cache.payload # None
        /\ now - cache.timestamp[1] > Ttl

\* C5: StatsCache.get, as get_stats calls it, gives the stored snapshot
\* exactly when an entry exists and its age is at most Ttl (an age equal to
\* Ttl included), and gives None otherwise; either way the payload and the
\* timestamp stay as they were (an expired entry is not evicted).
C5_CacheGet ==
    [][\A c \in Callers :
         CallStep(c) =>
            /\ cache' = cache
            /\ IF /\ cache.payload # None
                  /\ cache.timestamp # None
                  /\ now - cache.timestamp[1] <= Ttl
               THEN HitStep(c) /\ ret'.snapshot = cache.payload
               ELSE MissStep(c)]_vars

\* A call has just been served an entry whose age equals Ttl.
C5_Witness ==
    /\ ret # None
    /\ ret.hit
    /\ cache.payload = ret.snapshot
    /\ now - cache.timestamp[1] = Ttl

\* C6: a snapshot with a blocked, error or not_configured entry is never
\* what a cache-served call returns: every dict the cache serves has status
\* ok for every platform, so a not-ok snapshot reaches only the caller whose
\* own cycle assembled it.
C6_FailedNeverServed ==
    (ret # None /\ ret.hit) =>
        /\ \A p \in Platforms : ret.snapshot[p].status = "ok"
        /\ ret.snapshot = cache.payload

\* A call has just been served from the cache, the first call since a cycle
\* returned a snapshot with a not-ok entry.
C6_Witness ==
    /\ called # None
    /\ called.afterFailed
    /\ ret # None
    /\ ret.hit

\* C7 as stated: the first call after a cycle ended with a not-ok entry
\* starts a collection cycle, whatever other cycles did.
C7_AsStated ==
    [][\A c \in Callers :
         (CallStep(c) /\ pendingFailed) =>
            /\ MissStep(c)
            /\ \A p \in Platforms : task'[c][p] = "scheduled"]_vars

\* C7: the first call after a cycle ended with a not-ok entry starts a
\* collection cycle with one task for each platform fetcher, unless another
\* caller's cycle wrote the cache since the failed cycle began.
C7_RetryAfterFailure ==
    [][\A c \in Callers :
         (CallStep(c) /\ pendingFailed /\ ~pendingOverlap) =>
            /\ MissStep(c)
            /\ \A p \in Platforms : task'[c][p] = "scheduled"]_vars

\* A call has just started a cycle, the first call since a cycle ended with a
\* not-ok entry, and no other cycle wrote the cache meanwhile, though the
\* other caller's cycle is in progress.
C7_Witness ==
    /\ called # None
    /\ called.afterFailed
    /\ ~called.overlapped
    /\ pc[called.caller] = "collecting"
    /\ \A d \in Callers : pc[d] = "collecting"

\* C8: once _tiktok_stats has returned, its result is: the primary's result
\* when the primary returned; the fallback's result, with status ok, when the
\* primary raised and the fallback returned; blocked with the primary's
\* message when the primary raised TemporaryBlockError and the fallback
\* raised; error with the fallback's message when the primary raised anything
\* else and the fallback raised.
C8_ChainComposition ==
    \A c \in Callers :
        (task[c]["tiktok"] = "done" /\ chain[c].primary_out # None) =>
            LET primary == chain[c].primary_out
                fallback == chain[c].fallback_out
                result == results[c]["tiktok"]
            IN  IF ~primary.raised
                THEN result = primary.data /\ fallback = None
                ELSE /\ fallback # None
                     /\ IF ~fallback.raised
                        THEN result = fallback.data /\ result.status = "ok"
                        ELSE IF primary.exc = "TemporaryBlockError"
                        THEN result = [status |-> "blocked", message |-> primary.msg]
                        ELSE result = [status |-> "error", message |-> fallback.msg]

\* The chain has ended blocked: the primary was blocked by a challenge and
\* the fallback failed.
C8_Witness ==
    \E c \in Callers :
        /\ task[c]["tiktok"] = "done"
        /\ chain[c].primary_out # None
        /\ chain[c].primary_out.raised
        /\ chain[c].primary_out.msg = <<"captcha">>
        /\ chain[c].fallback_out # None
        /\ chain[c].fallback_out.raised
        /\ results[c]["tiktok"].status = "blocked"

\* C9: the fallback strategy has started only if the primary strategy has
\* ended with a failure: it is not started while the primary runs nor after
\* the primary returned.
C9_FallbackAfterPrimaryFailure ==
    \A c \in Callers :
        /\ chain[c].fallback # "idle" =>
              /\ chain[c].primary = "failed"
              /\ chain[c].primary_out # None
              /\ chain[c].primary_out.raised
        /\ chain[c].primary \in {"running", "ok"} => chain[c].fallback = "idle"

\* The fallback runs after a primary that failed with an error other than a
\* temporary block.
C9_Witness ==
    \E c \in Callers :
        /\ chain[c].fallback = "running"
        /\ chain[c].primary = "failed"
        /\ chain[c].fallback_reason[1] = "error"

\* C10: every dict get_stats returns, assembled or served from the cache, has
\* one entry for youtube, one for tiktok and generated_at, and each platform
\* entry is a payload with a status.
C10_SnapshotComplete ==
    ret # None =>
        /\ DOMAIN ret.snapshot = Platforms \cup {"generated_at"}
        /\ \A p \in Platforms :
              ret.snapshot[p].status \in {"ok", "not_configured", "blocked", "error"}

\* A snapshot has just been returned in which youtube is an error made by
\* _wrap from a raised exception and tiktok is blocked.
C10_Witness ==
    /\ ret # None
    /\ ret.snapshot["youtube"] =
          [status |-> "error", message |-> <<"could not convert string to float">>]
    /\ ret.snapshot["tiktok"].status = "blocked"

\* The status a fetcher's own run produced: the status of the payload it
\* returned, or the class of the exception it raised.
StatusOf(out) ==
    IF ~out.raised THEN out.data.status
    ELSE IF out.exc = "TemporaryBlockError" THEN "blocked"
    ELSE "error"

\* C11: a platform's fetch, whether it returns or raises, changes nothing of
\* the other platform's task or result, a result once produced stays as it is
\* until the cycle ends, and the snapshot of the cycle holds for each platform
\* the result of that platform's own fetch, with the status that fetch
\* produced.
C11_NoCrossContamination ==
    [][\A c \in Callers :
         /\ \A p \in Platforms, q \in Platforms :
              (p # q /\ task[c][p] = "thread" /\ task'[c][p] = "done") =>
                 /\ task'[c][q] = task[c][q]
                 /\ results'[c][q] = results[c][q]
                 /\ fetched'[c][q] = fetched[c][q]
         /\ ResumeStep(c) =>
              \A p \in Platforms :
                 /\ fetched[c][p] # None
                 /\ ret'.snapshot[p] = results[c][p]
                 /\ ret'.snapshot[p].status = StatusOf(fetched[c][p])]_vars

\* A cycle has just ended in which the YouTube fetcher raised IndexError and
\* the TikTok entry is ok.
C11_Witness ==
    /\ ret # None
    /\ ~ret.hit
    /\ ret.snapshot["youtube"] =
          [status |-> "error", message |-> <<"list index out of range">>]
    /\ ret.snapshot["tiktok"].status = "ok"

\* C12 as stated: every fetcher coroutine (fetch_youtube_livecounts,
\* fetch_tiktok) that has ended has returned a payload whose status is ok,
\* not_configured, blocked or error: none has raised.
C12_AsStated ==
    \A c \in Callers, p \in Platforms :
        fetched[c][p] # None =>
            /\ ~fetched[c][p].raised
            /\ fetched[c][p].data.status \in {"ok", "not_configured", "blocked", "error"}

\* The metric entries and the message entry of a payload.  A payload has its
\* metrics when it has metric keys, whether or not each count is known.
MetricKeys == {"followers", "videos", "views", "likes", "following"}
HasMetrics(payload) == DOMAIN payload \cap MetricKeys # {}
HasMessage(payload) == "message" \in DOMAIN payload

\* C13 as stated: every platform entry of a returned snapshot has exactly one
\* of metrics and message: metrics when its status is ok, message otherwise.
C13_AsStated ==
    ret # None =>
        \A p \in Platforms :
            /\ HasMetrics(ret.snapshot[p]) # HasMessage(ret.snapshot[p])
            /\ HasMetrics(ret.snapshot[p]) <=> ret.snapshot[p].status = "ok"

\* C13: every platform entry of a returned snapshot has metrics and no message
\* when its status is ok, a message and no metrics when its status is blocked
\* or error, and neither when its status is not_configured.
C13_ResultShape ==
    ret # None =>
        \A p \in Platforms :
            LET payload == ret.snapshot[p]
            IN  /\ payload.status = "ok" =>
                      HasMetrics(payload) /\ ~HasMessage(payload)
                /\ payload.status \in {"blocked", "error"} =>
                      HasMessage(payload) /\ ~HasMetrics(payload)
                /\ payload.status = "not_configured" =>
                      ~HasMetrics(payload) /\ ~HasMessage(payload)
                /\ ~(HasMetrics(payload) /\ HasMessage(payload))

\* A snapshot has just been returned with a not_configured entry next to an
\* entry made from an exception the fetcher raised.
C13_Witness ==
    /\ ret # None
    /\ ret.snapshot["tiktok"].status = "not_configured"
    /\ ret.snapshot["youtube"] =
          [status |-> "error", message |-> <<"could not convert string to float">>]

\* C14: a get_stats call that misses the cache creates the tasks of all
\* platform fetchers in one step; get_stats returns an assembled snapshot only
\* in a step before which every task has ended; and the step in which one
\* platform's task ends in blocked or error leaves the caller waiting and the
\* other platform's task as it was.
C14_GatherAll ==
    [][\A c \in Callers :
         /\ MissStep(c) => \A p \in Platforms : task'[c][p] = "scheduled"
         /\ (ret' # None /\ ret'.caller = c /\ ~ret'.hit) => ResumeStep(c)
         /\ ResumeStep(c) =>
               \A p \in Platforms : task[c][p] = "done" /\ results[c][p] # None
         /\ \A p \in Platforms, q \in Platforms :
               (/\ p # q
                /\ task[c][p] # "done"
                /\ task'[c][p] = "done"
                /\ task[c][q] # "done"
                /\ results'[c][p].status \in {"blocked", "error"}) =>
                  /\ pc'[c] = "collecting"
                  /\ ret' = None
                  /\ task'[c][q] = task[c][q]
                  /\ task'[c][q] \in {"scheduled", "thread"}]_vars

\* The TikTok fetch of a cycle has ended blocked while its YouTube fetch is
\* still in its thread and the caller waits.
C14_Witness ==
    \E c \in Callers :
        /\ pc[c] = "collecting"
        /\ task[c]["youtube"] = "thread"
        /\ results[c]["tiktok"] # None
        /\ results[c]["tiktok"].status = "blocked"

\* The profile key each platform's fetcher reads its target from.
PlatformKey(p) == IF p = "youtube" THEN "youtube_channel_url" ELSE "tiktok_username"

\* The target under a profile key is missing or empty.
Unset(values, key) == values[key] \in {Absent, ""}

\* C15 as stated: while some platform has no configured target (before and
\* after a step), a cache that is empty stays empty.
C15_AsStated ==
    [][(/\ \E key \in CONFIG_KEYS : Unset(profiles, key) /\ Unset(profiles', key)
        /\ cache = EmptyCache) =>
          cache' = EmptyCache]_vars

\* C15: a fetcher that finds its platform without a target ends at once with
\* not_configured and makes no request; a cycle with a not_configured entry
\* leaves the cache as it was; and while some platform has had no target since
\* the start (its key is missing from the profiles) the cache is empty and
\* every get_stats call starts a full collection cycle.
C15_NotConfiguredNoCache ==
    [][\A c \in Callers :
         /\ \A p \in Platforms :
               (/\ task[c][p] = "scheduled"
                /\ task'[c][p] # "scheduled"
                /\ Unset(profiles, PlatformKey(p))) =>
                  /\ results'[c][p] = [status |-> "not_configured"]
                  /\ task'[c][p] = "done"
                  /\ reqs' = reqs
         /\ (ResumeStep(c)
             /\ \E p \in Platforms : results[c][p].status = "not_configured") =>
               cache' = cache
         /\ (\E key \in CONFIG_KEYS : profiles'[key] = Absent) => cache' = EmptyCache
         /\ (CallStep(c) /\ \E key \in CONFIG_KEYS : profiles[key] = Absent) =>
               /\ MissStep(c)
               /\ \A p \in Platforms : task'[c][p] = "scheduled"]_vars

\* A cycle has just ended with TikTok not_configured, its key missing since the
\* start, and YouTube ok, after a configuration update; the cache is empty.
C15_Witness ==
    /\ ret # None
    /\ ~ret.hit
    /\ ret.snapshot["tiktok"].status = "not_configured"
    /\ ret.snapshot["youtube"].status = "ok"
    /\ profiles["tiktok_username"] = Absent
    /\ updates > 0
    /\ cache = EmptyCache

\* C16 as stated: while an update is in progress (update_profile_value holds
\* the lock and _write has not ended) no fetcher reads a profile value with
\* get_profile_value and no other update writes the profiles.
C16_AsStated ==
    [][cfgLock =>
          /\ \A c \in Callers, p \in Platforms :
                ~(task[c][p] = "scheduled" /\ task'[c][p] # "scheduled")
          /\ profiles' = profiles]_vars

\* C17: the cache slot changes only in the step in which a collection cycle
\* ends, and then both of its fields are of that one write: the payload is the
\* whole snapshot that cycle returns (every platform entry and generated_at)
\* and the timestamp is the clock value of the write; the slot never holds a
\* payload without a timestamp or a timestamp without a payload.
C17_LastWriteWins ==
    [][/\ cache' # cache =>
            \E c \in Callers :
               /\ ResumeStep(c)
               /\ ret' # None
               /\ ret'.caller = c
               /\ cache'.payload = ret'.snapshot
               /\ DOMAIN cache'.payload = Platforms \cup {"generated_at"}
               /\ cache'.timestamp = <<now'>>
               /\ cache'.payload["generated_at"] <= now'
       /\ (cache'.payload = None) <=> (cache'.timestamp = None)]_vars

\* A cycle has just overwritten the entry another cycle had stored while it
\* was running: a call was served that entry, which would still be valid, and
\* the cache now holds the snapshot of the cycle that has just ended.
C17_Witness ==
    /\ ret # None
    /\ ~ret.hit
    /\ cache.payload = ret.snapshot
    /\ prevHit # None
    /\ writtenSinceHit
    /\ now - prevHit.stored <= Ttl
    /\ prevHit.snapshot # cache.payload

\* The count the claim gives for a text: the number times the multiplier of
\* its suffix, K, M or B in either case; absent for a text that is empty,
\* absent or does not parse.
ClaimedCount(text) ==
    CASE text = Text12_3K -> <<12300>>
      [] text = Text1_234_567 -> <<1234567>>
      [] text = Text2M -> <<2000000>>
      [] text = Text2m -> <<2000000>>
      [] text = Text2k -> <<2000>>
      [] text = Text1b -> <<1000000000>>
      [] text \in {None, Text1_2_3, TextBlank, TextWords} -> None

\* C18 as stated: when _youtube_stats has read the count texts of a channel
\* page, the result is ok whatever the texts are, and followers is the count
\* the claim gives for subscriberCountText: 12300 for "12.3K", 1234567 for
\* "1,234,567", 2000000 for "2M" and for "2m", and absent for an empty, absent
\* or unparsable text.
C18_AsStated ==
    \A c \in Callers :
        (/\ answer[c]["youtube"] # None
         /\ answer[c]["youtube"].resolve # "fail"
         /\ ~answer[c]["youtube"].raised
         /\ answer[c]["youtube"].status_code = 200
         /\ answer[c]["youtube"].page = "about") =>
            /\ ~fetched[c]["youtube"].raised
            /\ results[c]["youtube"].status = "ok"
            /\ answer[c]["youtube"].texts.subscriberCountText
                   \in {None, Text12_3K, Text1_234_567, Text2M, Text2m, Text2k,
                        Text1b, Text1_2_3, TextBlank, TextWords} =>
                 results[c]["youtube"].followers =
                    ClaimedCount(answer[c]["youtube"].texts.subscriberCountText)

\* C19: once the coroutine a _wrap task awaits has ended, the task has ended
\* too and has a payload for its platform: the returned payload when the
\* coroutine returned; status blocked with str(exc) as message when it raised
\* TemporaryBlockError; status error with str(exc) as message when it raised
\* anything else.  A snapshot a cycle assembles has an entry for each task.
C19_WrapConverts ==
    /\ \A c \in Callers, p \in Platforms :
          fetched[c][p] # None =>
             /\ task[c][p] = "done"
             /\ results[c][p] # None
             /\ IF ~fetched[c][p].raised
                THEN results[c][p] = fetched[c][p].data
                ELSE IF fetched[c][p].exc = "TemporaryBlockError"
                THEN results[c][p] =
                        [status |-> "blocked", message |-> fetched[c][p].msg]
                ELSE results[c][p] =
                        [status |-> "error", message |-> fetched[c][p].msg]
    /\ (ret # None /\ ~ret.hit) => Platforms \subseteq DOMAIN ret.snapshot

\* One awaited coroutine raised TemporaryBlockError and its task returned
\* blocked; the other raised KeyError and its task returned error.
C19_Witness ==
    \E c \in Callers :
        /\ fetched[c]["youtube"] # None
        /\ fetched[c]["youtube"].raised
        /\ fetched[c]["youtube"].exc = "TemporaryBlockError"
        /\ results[c]["youtube"] = [status |-> "blocked", message |-> <<"captcha">>]
        /\ fetched[c]["tiktok"] # None
        /\ fetched[c]["tiktok"].raised
        /\ fetched[c]["tiktok"].exc = "KeyError"
        /\ results[c]["tiktok"] = [status |-> "error", message |-> <<"userId">>]

\* The class the claim gives a TokCount response that was received: a
\* temporary block for status 401, 403 or 429 whatever the body; a hard error
\* for any other failing status and for a body that is not JSON; for a parsed
\* body without success, a temporary block if it signals a challenge and a hard
\* error if not; a payload for a body with success.
Classified(resp) ==
    IF resp.status_code \in {401, 403, 429} THEN "block"
    ELSE IF resp.status_code >= 400 \/ ~resp.json THEN "error"
    ELSE IF ~resp.success THEN (IF resp.challenge THEN "block" ELSE "error")
    ELSE "payload"

\* A run of _tokcount_stats ended as the class of the response to its n-th
\* request says: TemporaryBlockError for a block, another exception for a
\* hard error, after n requests.
EndedAs(out, class, n) ==
    /\ out.raised
    /\ out.reqs = n
    /\ class = "block" <=> out.exc = "TemporaryBlockError"

\* C20: the primary strategy ends as the class of the first response it gets
\* that is not a payload says; it goes on to its second request only when the
\* first response is a payload, and returns only when both are.
C20_TokcountClassification ==
    \A c \in Callers :
        (answer[c]["tiktok"] # None /\ ~answer[c]["tiktok"][1].raised) =>
            LET r1 == answer[c]["tiktok"][1]
                r2 == answer[c]["tiktok"][2]
                out == chain[c].primary_out
            IN  /\ out # None
                /\ Classified(r1) # "payload" => EndedAs(out, Classified(r1), 1)
                /\ (Classified(r1) = "payload" /\ r1.userId # None /\ ~r2.raised) =>
                      IF Classified(r2) # "payload"
                      THEN EndedAs(out, Classified(r2), 2)
                      ELSE /\ ~out.raised
                           /\ out.reqs = 2
                           /\ out.data.followers = StatsGet(r2, "followerCount")

\* The primary strategy was answered 429 with a body that has success and
\* ended with TemporaryBlockError.
C20_Witness ==
    \E c \in Callers :
        /\ answer[c]["tiktok"] # None
        /\ answer[c]["tiktok"][1] = Resp429Body
        /\ chain[c].primary_out # None
        /\ chain[c].primary_out.raised
        /\ chain[c].primary_out.exc = "TemporaryBlockError"

\* C21: in every state the cache slot has a payload and a timestamp or has
\* neither; a payload it has is a whole snapshot in which every platform entry
\* has status ok, and its generated_at is not later than the timestamp.
C21_CacheConsistent ==
    /\ (cache.payload = None) <=> (cache.timestamp = None)
    /\ cache.payload # None =>
          /\ DOMAIN cache.payload = Platforms \cup {"generated_at"}
          /\ \A p \in Platforms : cache.payload[p].status = "ok"
          /\ cache.payload["generated_at"] <= cache.timestamp[1]

\* A cycle has just ended with an error entry while the cache holds an entry
\* that was stored one tick after its snapshot was assembled.
C21_Witness ==
    /\ cache.payload # None
    /\ cache.payload["generated_at"] < cache.timestamp[1]
    /\ ret # None
    /\ ~ret.hit
    /\ "error" \in Statuses(ret.snapshot)

\* C22: whenever a cache entry is replaced, the new entry's timestamp is not
\* earlier than the old entry's and the new snapshot's generated_at is not
\* earlier than the old snapshot's, whichever cycles wrote them.
C22_WritesMonotonic ==
    [][(cache' # cache /\ cache.payload # None) =>
          /\ cache'.payload # None
          /\ cache'.timestamp[1] >= cache.timestamp[1]
          /\ cache'.payload["generated_at"] >= cache.payload["generated_at"]
          /\ cache'.payload["generated_at"] >= cache.timestamp[1]]_vars

\* A cycle has just replaced an entry that had been served to a call with a
\* snapshot assembled later and stored later, while the other caller's cycle
\* is in progress.
C22_Witness ==
    /\ ret # None
    /\ ~ret.hit
    /\ cache.payload = ret.snapshot
    /\ prevHit # None
    /\ writtenSinceHit
    /\ prevHit.snapshot["generated_at"] < cache.payload["generated_at"]
    /\ prevHit.stored < cache.timestamp[1]
    /\ \E d \in Callers : pc[d] = "collecting"

\* The target the cached entry of a platform was collected for, read off its
\* identifier.
EntryTarget(p) ==
    IF p = "youtube" THEN cache.payload[p].identifier[1]
    ELSE cache.payload[p].identifier[2]

\* The cache holds a still-valid entry collected for another target of p than
\* the one now configured.
StaleFor(p) == Fresh /\ EntryTarget(p) # profiles[PlatformKey(p)]

\* C23 as stated: while the cache holds a still-valid snapshot collected for
\* the previous target of a platform, the entry stays and no fetch of that
\* platform starts with the new target.
C23_AsStated ==
    [][\A p \in Platforms :
          StaleFor(p) =>
             /\ cache' = cache
             /\ \A c \in Callers :
                   ~(task[c][p] = "scheduled" /\ task'[c][p] = "thread")]_vars

\* C23: a step of update_profile_value or _write leaves the cache and every
\* cycle as they are; a call made while the entry is valid is served it, also
\* when it was collected for a previous target, and a call made after it
\* expired starts a cycle; a fetcher thread is given the target configured
\* when its task starts; and while the entry is valid, only a cycle that was
\* already running when the entry was stored starts a fetch or replaces it.
C23_UpdateKeepsCache ==
    [][/\ (profiles' # profiles \/ cfgLock' # cfgLock \/ disk' # disk) =>
             /\ cache' = cache
             /\ UNCHANGED <<pc, task, arg, chain, results, reqs>>
       /\ \A c \in Callers :
             /\ (CallStep(c) /\ Fresh) =>
                   /\ HitStep(c)
                   /\ ret'.snapshot = cache.payload
                   /\ UNCHANGED <<task, arg, reqs>>
             /\ (CallStep(c) /\ ~Fresh) => MissStep(c)
             /\ \A p \in Platforms :
                   (task[c][p] = "scheduled" /\ task'[c][p] = "thread") =>
                      /\ arg'[c][p] = profiles[PlatformKey(p)]
                      /\ Fresh => sawWrite[c]
             /\ (ResumeStep(c) /\ Fresh /\ cache' # cache) => sawWrite[c]]_vars

\* A call has just been served a snapshot collected for the target "a" of
\* YouTube after the target was changed to "b".
C23_Witness ==
    /\ ret # None
    /\ ret.hit
    /\ ret.snapshot["youtube"].identifier = <<"a">>
    /\ profiles["youtube_channel_url"] = "b"
    /\ disk["youtube_channel_url"] = "b"

\* The sender s is the authorized user, or no authorized user is set.
Authorized(s) == authorized_user_id = None \/ s = authorized_user_id

\* The step ends the dispatch of an update to its handler.
Dispatched == update # None /\ update' = None

\* C24: through the handlers a profile value changes only in a
\* save_config_value step, on a text "key=value" of a sender who is the
\* authorized user (or with no authorized user set) and whose key is one of
\* CONFIG_KEYS, and only that key changes; a /config or a text of a sender
\* who is not authorized leaves the sender's dialogue ended, any update of
\* such a sender leaves the configuration as it was, and a /stats of such a
\* sender calls no get_stats and starts no collection cycle.
C24_AuthorizedOnly ==
    [][ /\ authorized_user_id' = authorized_user_id
        /\ profiles' # profiles =>
              /\ Dispatched
              /\ update.command = "text"
              /\ dialogue[update.sender] = "CHOOSING"
              /\ Authorized(update.sender)
              /\ Len(update.text) = 3
              /\ update.text[2] = "="
              /\ update.text[1] \in CONFIG_KEYS
              /\ profiles' = [profiles EXCEPT ![update.text[1]] = update.text[3]]
        /\ called' # None =>
              /\ Dispatched
              /\ update.command = "stats"
              /\ Authorized(update.sender)
        /\ (Dispatched /\ ~Authorized(update.sender)) =>
              /\ update.command \in {"config", "text"} => dialogue'[update.sender] = "END"
              /\ UNCHANGED <<profiles, disk, cfgLock, updates>>
              /\ UNCHANGED <<pc, task, cache>>
              /\ called' = None ]_vars

\* A user who is not the authorized one has been denied /config, the dialogue
\* staying ended, after the authorized user saved a new target in theirs.
C24_Witness ==
    /\ authorized_user_id = <<1>>
    /\ handled # None
    /\ handled.sender = <<2>>
    /\ handled.command = "config"
    /\ handled.result = "END"
    /\ dialogue[<<2>>] = "END"
    /\ updates = 1
    /\ \E key \in CONFIG_KEYS : profiles[key] = "b"

====
